---------------------------- MODULE Spec2Model ----------------------------
(***************************************************************************)
(* artist-assist-app: the IndexedDB database of src/services/db/db.ts and  *)
(* the paint set form of the PaintSetChooser component (part_000).         *)
(*                                                                         *)
(* Conventions.                                                            *)
(*   - A JavaScript list whose order nothing reads (brands, the colors of  *)
(*     a brand) is a set; the empty list is {}.                            *)
(*   - `undefined` is 0 for a paint type (the code only tests a type for   *)
(*     truthiness) and <<>> for the storeBoughtPaintSet field, which is    *)
(*     never an empty array; an absent key of `colors` is undefined.       *)
(***************************************************************************)
EXTENDS Integers, FiniteSets, Sequences, TLC

VARIABLES
    db,         \* the database: [version, stores]
    dbPromise,  \* "pending" | "fulfilled" | "rejected"
    lastPut,    \* history: the record last put under (store, key)
    form,       \* the form store: [type, brands, storeBoughtPaintSet, colors]
    pending,    \* database reads in flight, oldest first
    now,        \* clock of savePaintSet's timestamps
    last        \* history: the handler step taken last

vars == <<db, dbPromise, lastPut, form, pending, now, last>>

-----------------------------------------------------------------------------
(* Bounds of the model *)

NumTypes == 2
NumBrands == 2
NumPaints == 1
NumMixes == 2
MaxPending == 2
MaxSaves == 2

PaintTypes == 1..NumTypes
PaintBrands == 1..NumBrands
Paints == 1..NumPaints
MixIds == 1..NumMixes

-----------------------------------------------------------------------------
(* db.ts: the database *)

DB_VERSION == 2

StoreNames == {"paint-sets", "image-file", "color-picker", "paint-mixes"}

\* The order in which upgrade looks at the stores
UpgradeOrder == <<"paint-sets", "color-picker", "paint-mixes", "image-file">>

NoKeyPath == "(none)"

PaintSetsKeyPathByTimestamp == "timestamp"

\* createObjectStore('paint-sets', {keyPath: 'type'})
PaintSetsKeyPath == "type"

\* createObjectStore('paint-mixes', {keyPath: 'id'})
PaintMixesKeyPath == "id"

KeyPathOf(name) ==
    CASE name = "paint-sets" -> PaintSetsKeyPath
      [] name = "paint-mixes" -> PaintMixesKeyPath
      [] OTHER -> NoKeyPath

IndexesOf(name) ==
    IF name = "paint-sets" THEN {[name |-> "by-timestamp", keyPath |-> "timestamp"]}
    ELSE {}

containsAlwaysFalse(stores, name) == FALSE

\* db.objectStoreNames.contains(name)
contains(stores, name) == name \in DOMAIN stores

NewStore(name) ==
    [keyPath |-> KeyPathOf(name), indexes |-> IndexesOf(name), records |-> {}]

\* db.createObjectStore(name, options) inside the upgrade transaction: a
\* store of that name must not exist, or the call throws ConstraintError.
createObjectStore(acc, name) ==
    IF name \in DOMAIN acc.stores
    THEN [acc EXCEPT !.failed = TRUE]
    ELSE [acc EXCEPT
            !.stores = [n \in DOMAIN acc.stores \cup {name} |->
                          IF n = name THEN NewStore(name) ELSE acc.stores[n]],
            !.created = acc.created \cup {name}]

\* One `if (!contains(name)) createObjectStore(name)` of upgrade
UpgradeStep(acc, name) ==
    IF acc.failed THEN acc
    ELSE IF ~contains(acc.stores, name) THEN createObjectStore(acc, name)
    ELSE acc

RECURSIVE UpgradeFrom(_, _)
UpgradeFrom(acc, i) ==
    IF i > Len(UpgradeOrder) THEN acc
    ELSE UpgradeFrom(UpgradeStep(acc, UpgradeOrder[i]), i + 1)

\* upgrade(db): [stores, created, failed]
upgrade(stores) ==
    UpgradeFrom([stores |-> stores, created |-> {}, failed |-> FALSE], 1)

\* openDB(name, DB_VERSION, {upgrade}): upgrade runs in a version change
\* transaction when the stored version is older; an exception in it aborts
\* the transaction and rejects the promise.
openDB(d) ==
    IF d.version >= DB_VERSION
    THEN [db |-> d, promise |-> "fulfilled", created |-> {}, upgraded |-> FALSE]
    ELSE LET r == upgrade(d.stores)
         IN  IF r.failed
             THEN [db |-> d, promise |-> "rejected", created |-> {},
                   upgraded |-> TRUE]
             ELSE [db |-> [version |-> DB_VERSION, stores |-> r.stores],
                   promise |-> "fulfilled", created |-> r.created,
                   upgraded |-> TRUE]

\* The key of a value in a store: the value's key path, or the key given
KeyIn(store, value, key) ==
    IF store.keyPath = NoKeyPath THEN key ELSE value[store.keyPath]

\* store.put(value, key): the record under the value's key is replaced
put(stores, name, value, key) ==
    LET k == KeyIn(stores[name], value, key)
    IN  [stores EXCEPT ![name].records =
            {e \in @ : e.key # k} \cup {[key |-> k, value |-> value]}]

\* store.get(key): the values found under the key
get(stores, name, key) ==
    {e.value : e \in {x \in stores[name].records : x.key = key}}


\* getPaintSetByType(type): db.get('paint-sets', type)
getPaintSetByType(stores, type) == get(stores, "paint-sets", type)

\* getLastPaintSet(): the last record of the 'by-timestamp' index
getLastPaintSet(stores) ==
    LET all == {e.value : e \in stores["paint-sets"].records}
    IN  {v \in all : \A w \in all : w.timestamp <= v.timestamp}

\* {...paintSet, timestamp: Date.now()}
Stamped(paintSet, time) ==
    [type |-> paintSet.type, brands |-> paintSet.brands,
     storeBoughtPaintSet |-> paintSet.storeBoughtPaintSet,
     colors |-> paintSet.colors, timestamp |-> time]

\* savePaintSet(paintSet): db.put('paint-sets', {...paintSet, timestamp})
savePaintSet(stores, paintSet, time) ==
    put(stores, "paint-sets", Stamped(paintSet, time), 0)

\* savePaintMix(paintMix): db.put('paint-mixes', paintMix)
savePaintMix(stores, paintMix) == put(stores, "paint-mixes", paintMix, 0)

-----------------------------------------------------------------------------
(* PaintSetChooser: the form *)

\* const customPaintSet = [0]
customPaintSet == <<0>>

SetNames == {"Basic"}

\* useStoreBoughtPaintSets(type, brands): brand -> name -> colors of the set
storeBoughtPaintSets(type, brands) ==
    IF type = 0 THEN <<>>
    ELSE [b \in brands |-> [n \in SetNames |-> {1}]]

\* The values of the Cascader's options: getStoreBoughtPaintSetOptions
getStoreBoughtPaintSetOptions(type, sets) ==
    IF type = 0 \/ DOMAIN sets = {} THEN {}
    ELSE {customPaintSet} \cup
         {<<b, n>> : b \in DOMAIN sets, n \in SetNames}

formInitialValues ==
    [type |-> 0, brands |-> {}, storeBoughtPaintSet |-> <<>>, colors |-> <<>>]

FormFields == {"type", "brands", "storeBoughtPaintSet", "colors"}

\* Object.assign on the colors of two partial records
MergeColors(old, new) ==
    [b \in DOMAIN old \cup DOMAIN new |->
        IF b \in DOMAIN new THEN new[b] ELSE old[b]]

\* form.setFieldsValue(values): the given fields are written into the store,
\* objects merged key by key, lists replaced.  Keys that are no field of the
\* form (timestamp) are carried by the store and read by nothing.
setFieldsValue(store, values) ==
    [f \in FormFields |->
        IF f \notin DOMAIN values THEN store[f]
        ELSE IF f = "colors" THEN MergeColors(store.colors, values.colors)
        ELSE values[f]]

\* The brands whose colors field <Form.Item name={['colors', brand]}> is
\* rendered: paintBrands, when paintType is set
RenderedBrands(store) == IF store.type # 0 THEN store.brands ELSE {}

\* form.getFieldsValue(): the values of the rendered fields.  `rendered` is
\* the store the fields were last rendered from, `store` the store read.
getFieldsValue(rendered, store) ==
    [type |-> store.type,
     brands |-> IF rendered.type # 0 THEN store.brands ELSE {},
     storeBoughtPaintSet |->
        IF RenderedBrands(rendered) # {} THEN store.storeBoughtPaintSet
        ELSE <<>>,
     colors |-> [b \in RenderedBrands(rendered) |->
                    IF b \in DOMAIN store.colors THEN store.colors[b] ELSE {}]]

Has(changedValues, f) == f \in DOMAIN changedValues

\* const colors = fromEntries(keys(values.colors).map(brand => [brand, []]))
EmptyColors(values) == [b \in DOMAIN values.colors |-> {}]

ResetForTypeKeepsColors(store, changedValues, colors) ==
    IF Has(changedValues, "type") /\ changedValues.type # 0
    THEN setFieldsValue(store, [brands |-> {}, storeBoughtPaintSet |-> <<>>])
    ELSE store

\* if (changedValues.type) { form.setFieldsValue({brands: [], ...}) ...
ResetForType(store, changedValues, colors) ==
    IF Has(changedValues, "type") /\ changedValues.type # 0
    THEN setFieldsValue(store,
            [brands |-> {}, storeBoughtPaintSet |-> <<>>, colors |-> colors])
    ELSE store

\* ... const valuesFromDb = await getPaintSetByType(changedValues.type);
\*     if (valuesFromDb) form.setFieldsValue(valuesFromDb) }
LoadFromDb(store, valuesFromDb) ==
    IF valuesFromDb = {} THEN store
    ELSE LET v == CHOOSE x \in valuesFromDb : TRUE
         IN  setFieldsValue(store, v)

\* if (changedValues.brands) form.setFieldsValue({storeBoughtPaintSet, colors})
ResetForBrands(store, changedValues, colors) ==
    IF Has(changedValues, "brands")
    THEN setFieldsValue(store, [storeBoughtPaintSet |-> <<>>, colors |-> colors])
    ELSE store

FillFromStoreBoughtKeepsOthers(store, changedValues, colors, sets) ==
    IF Has(changedValues, "storeBoughtPaintSet")
       /\ changedValues.storeBoughtPaintSet # <<>>
    THEN LET v == changedValues.storeBoughtPaintSet
         IN  IF v[1] # 0 /\ DOMAIN sets # {}
             THEN setFieldsValue(store,
                     [colors |-> [b \in {v[1]} |-> sets[v[1]][v[2]]]])
             ELSE store
    ELSE store

\* if (changedValues.storeBoughtPaintSet) { ... form.setFieldsValue({colors}) }
FillFromStoreBought(store, changedValues, colors, sets) ==
    IF Has(changedValues, "storeBoughtPaintSet")
       /\ changedValues.storeBoughtPaintSet # <<>>
    THEN LET v == changedValues.storeBoughtPaintSet
             filled ==
                IF v[1] # 0 /\ DOMAIN sets # {}
                THEN IF v[1] \in DOMAIN sets /\ v[2] \in DOMAIN sets[v[1]]
                     THEN MergeColors(colors, [b \in {v[1]} |-> sets[v[1]][v[2]]])
                     ELSE MergeColors(colors, [b \in {v[1]} |-> {}])
                ELSE colors
         IN  setFieldsValue(store, [colors |-> filled])
    ELSE store

MarkCustomAsUndefined(store, changedValues) ==
    IF Has(changedValues, "colors")
    THEN setFieldsValue(store, [storeBoughtPaintSet |-> <<>>])
    ELSE store

\* if (changedValues.colors) form.setFieldsValue({storeBoughtPaintSet: customPaintSet})
MarkCustom(store, changedValues) ==
    IF Has(changedValues, "colors")
    THEN setFieldsValue(store, [storeBoughtPaintSet |-> customPaintSet])
    ELSE store

\* handleFormValuesChange after its await (or all of it, when no type changed)
AfterAwait(store, changedValues, colors, sets) ==
    MarkCustom(
        FillFromStoreBought(
            ResetForBrands(store, changedValues, colors),
            changedValues, colors, sets),
        changedValues)

\* The store after a user's edit of one field, before onValuesChange
Edited(store, changedValues) == setFieldsValue(store, changedValues)

\* Form validation: every rendered field is required
Valid(values) ==
    /\ values.type # 0
    /\ values.brands # {}
    /\ values.storeBoughtPaintSet # <<>>
    /\ \A b \in DOMAIN values.colors : values.colors[b] # {}

-----------------------------------------------------------------------------
(* The paint set form: its state and its steps *)

FreshDb == [version |-> 0, stores |-> <<>>]

NoPut == [sets |-> [t \in PaintTypes |-> {}], mixes |-> [m \in MixIds |-> {}]]

\* The component is mounted: the form holds its initial values and the
\* effect has asked for the last paint set.
Mounted(stores) ==
    /\ form' = formInitialValues
    /\ pending' = <<[changedValues |-> <<>>, colors |-> <<>>,
                     valuesFromDb |-> getLastPaintSet(stores)]>>

Init ==
    /\ db = openDB(FreshDb).db
    /\ dbPromise = openDB(FreshDb).promise
    /\ lastPut = NoPut
    /\ form = formInitialValues
    /\ pending = <<[changedValues |-> <<>>, colors |-> <<>>,
                    valuesFromDb |-> getLastPaintSet(openDB(FreshDb).db.stores)]>>
    /\ now = 0
    /\ last = [op |-> "mount", changedValues |-> <<>>]

\* The page is loaded again: the module opens the database (no upgrade is
\* due) and the component is mounted anew; handlers of the old page are gone.
Reload ==
    /\ dbPromise = "fulfilled"
    /\ db' = openDB(db).db
    /\ dbPromise' = openDB(db).promise
    /\ Mounted(db.stores)
    /\ last' = [op |-> "mount", changedValues |-> <<>>]
    /\ UNCHANGED <<lastPut, now>>

\* onValuesChange of a field other than type: the whole handler runs
ValuesChange(changedValues) ==
    LET store == Edited(form, changedValues)
        values == getFieldsValue(form, store)
        colors == EmptyColors(values)
        sets == storeBoughtPaintSets(form.type, RenderedBrands(form))
    IN  /\ form' = AfterAwait(ResetForType(store, changedValues, colors),
                              changedValues, colors, sets)
        /\ last' = [op |-> "handleFormValuesChange",
                    changedValues |-> changedValues]
        /\ UNCHANGED <<db, dbPromise, lastPut, pending, now>>

\* The user picks another paint type: the handler runs up to its await
ChangeType ==
    \E t \in PaintTypes :
        LET changedValues == [type |-> t]
            store == Edited(form, changedValues)
            values == getFieldsValue(form, store)
            colors == EmptyColors(values)
        IN  /\ t # form.type
            /\ Len(pending) < MaxPending
            /\ form' = ResetForType(store, changedValues, colors)
            /\ pending' = Append(pending,
                    [changedValues |-> changedValues, colors |-> colors,
                     valuesFromDb |-> getPaintSetByType(db.stores, t)])
            /\ last' = [op |-> "handleFormValuesChange",
                        changedValues |-> changedValues]
            /\ UNCHANGED <<db, dbPromise, lastPut, now>>

\* The user changes the brands (the field is rendered once a type is set)
ChangeBrands ==
    \E brands \in SUBSET PaintBrands :
        /\ form.type # 0
        /\ brands # form.brands
        /\ ValuesChange([brands |-> brands])

\* The user picks a paint set in the Cascader, or clears it
ChangeStoreBoughtPaintSet ==
    \E v \in getStoreBoughtPaintSetOptions(form.type,
                storeBoughtPaintSets(form.type, RenderedBrands(form)))
             \cup {<<>>} :
        /\ RenderedBrands(form) # {}
        /\ v # form.storeBoughtPaintSet
        /\ ValuesChange([storeBoughtPaintSet |-> v])

\* The user edits the colors of one rendered brand
ChangeColors ==
    \E b \in RenderedBrands(form), cs \in SUBSET Paints :
        /\ cs # getFieldsValue(form, form).colors[b]
        /\ ValuesChange([colors |-> [x \in {b} |-> cs]])

\* A read of the database resolves and its handler runs to its end
Resume ==
    /\ pending # <<>>
    /\ LET p == Head(pending)
           sets == storeBoughtPaintSets(form.type, RenderedBrands(form))
       IN  /\ form' = AfterAwait(LoadFromDb(form, p.valuesFromDb),
                                 p.changedValues, p.colors, sets)
           /\ last' = [op |-> "resume", changedValues |-> p.changedValues,
                       valuesFromDb |-> p.valuesFromDb]
    /\ pending' = Tail(pending)
    /\ UNCHANGED <<db, dbPromise, lastPut, now>>

\* handleSubmit(values): the validated values are saved
handleSubmit ==
    LET values == getFieldsValue(form, form)
    IN  /\ Valid(values)
        /\ now < MaxSaves
        /\ now' = now + 1
        /\ db' = [db EXCEPT !.stores = savePaintSet(@, values, now + 1)]
        /\ lastPut' = [lastPut EXCEPT !.sets[values.type] =
                          {Stamped(values, now + 1)}]
        /\ last' = [op |-> "handleSubmit", changedValues |-> <<>>]
        /\ UNCHANGED <<dbPromise, form, pending>>

Next ==
    \/ Reload
    \/ ChangeType
    \/ ChangeBrands
    \/ ChangeStoreBoughtPaintSet
    \/ ChangeColors
    \/ Resume
    \/ handleSubmit

Spec == Init /\ [][Next]_vars

-----------------------------------------------------------------------------
(* The database alone: opened over what an earlier version left, then saved to *)

MixNames == {"sky", "sea"}

PaintMixes == [id : MixIds, name : MixNames]

\* Definitions as the form submits them, one brand each
DbDefinitions ==
    {[type |-> t, brands |-> {b}, storeBoughtPaintSet |-> customPaintSet,
      colors |-> [x \in {b} |-> Paints]] : t \in PaintTypes, b \in PaintBrands}

\* A record an earlier session may have left in a store
SampleRecord(name) ==
    CASE name = "paint-sets" ->
            LET v == Stamped(CHOOSE d \in DbDefinitions : d.type = 1 /\ d.brands = {1}, 0)
            IN  [key |-> v[KeyPathOf(name)], value |-> v]
      [] name = "paint-mixes" ->
            LET v == [id |-> 1, name |-> "sky"]
            IN  [key |-> v[KeyPathOf(name)], value |-> v]
      [] name = "image-file" -> [key |-> 0, value |-> "photo.jpg"]
      [] OTHER -> [key |-> 0, value |-> "settings"]

\* The databases an earlier version of the application may have left:
\* none at all, or any of the stores, each empty or holding a record
EarlierDatabases ==
    {FreshDb} \cup
    {[version |-> 1,
      stores |-> [n \in names |->
                    [NewStore(n) EXCEPT !.records =
                        IF n \in filled THEN {SampleRecord(n)} ELSE {}]]] :
        names \in SUBSET StoreNames, filled \in SUBSET StoreNames}

\* What the records of a database were last put as
PutsOf(stores) ==
    [sets |-> [t \in PaintTypes |->
                IF "paint-sets" \in DOMAIN stores
                THEN {e.value : e \in {x \in stores["paint-sets"].records :
                                          x.value.type = t}}
                ELSE {}],
     mixes |-> [m \in MixIds |->
                IF "paint-mixes" \in DOMAIN stores
                THEN {e.value : e \in {x \in stores["paint-mixes"].records :
                                          x.value.id = m}}
                ELSE {}]]

InitDb ==
    /\ db \in EarlierDatabases
    /\ dbPromise = "pending"
    /\ lastPut = PutsOf(db.stores)
    /\ form = formInitialValues
    /\ pending = <<>>
    /\ now = 0
    /\ last = [op |-> "load", changedValues |-> <<>>]

\* The module is loaded: dbPromise = openDB('artist-assist-app-db', 2, {upgrade})
OpenDb ==
    /\ dbPromise = "pending"
    /\ db' = openDB(db).db
    /\ dbPromise' = openDB(db).promise
    /\ last' = [op |-> "openDB", changedValues |-> <<>>, before |-> db.stores,
                created |-> openDB(db).created]
    /\ UNCHANGED <<lastPut, form, pending, now>>

\* savePaintSet(paintSet) of a caller
SavePaintSet ==
    \E paintSet \in DbDefinitions :
        /\ dbPromise = "fulfilled"
        /\ now < MaxSaves
        /\ now' = now + 1
        /\ db' = [db EXCEPT !.stores = savePaintSet(@, paintSet, now + 1)]
        /\ lastPut' = [lastPut EXCEPT !.sets[paintSet.type] =
                          {Stamped(paintSet, now + 1)}]
        /\ last' = [op |-> "savePaintSet", changedValues |-> <<>>]
        /\ UNCHANGED <<dbPromise, form, pending>>

\* savePaintMix(paintMix) of a caller
SavePaintMix ==
    \E paintMix \in PaintMixes :
        /\ dbPromise = "fulfilled"
        /\ db' = [db EXCEPT !.stores = savePaintMix(@, paintMix)]
        /\ lastPut' = [lastPut EXCEPT !.mixes[paintMix.id] = {paintMix}]
        /\ last' = [op |-> "savePaintMix", changedValues |-> <<>>]
        /\ UNCHANGED <<dbPromise, form, pending, now>>

NextDb ==
    \/ OpenDb
    \/ SavePaintSet
    \/ SavePaintMix

SpecDb == InitDb /\ [][NextDb]_vars

-----------------------------------------------------------------------------
(* Claims about the database *)

RecordsOf(name) == db.stores[name].records

\* C1: the 'paint-sets' store holds at most one record per paint type and the
\* 'paint-mixes' store at most one per mix id, and the record read under a
\* type or an id is the one saved last with it.
C1_KeyedByTypeAndId ==
    dbPromise = "fulfilled" =>
        /\ \A t \in PaintTypes :
              /\ Cardinality({e \in RecordsOf("paint-sets") : e.value.type = t}) <= 1
              /\ getPaintSetByType(db.stores, t) = lastPut.sets[t]
        /\ \A m \in MixIds :
              /\ Cardinality({e \in RecordsOf("paint-mixes") : e.value.id = m}) <= 1
              /\ get(db.stores, "paint-mixes", m) = lastPut.mixes[m]

\* A definition was saved over an earlier one of its type, and a mix over
\* an earlier one of its id
C1_Witness ==
    /\ dbPromise = "fulfilled"
    /\ now = 2
    /\ Cardinality(RecordsOf("paint-sets")) = 1
    /\ \E e \in RecordsOf("paint-mixes") : e.value = [id |-> 1, name |-> "sea"]

\* C4: after the upgrade all four stores exist; the stores created are
\* exactly the missing ones; a store that existed is as it was, records
\* included; and the upgrade, run again, creates nothing and changes nothing.
C4_UpgradeCreatesMissing ==
    last.op = "openDB" =>
        /\ dbPromise = "fulfilled"
        /\ DOMAIN db.stores = StoreNames
        /\ last.created = StoreNames \ DOMAIN last.before
        /\ \A n \in DOMAIN last.before : db.stores[n] = last.before[n]
        /\ \A n \in last.created : db.stores[n] = NewStore(n)
        /\ upgrade(db.stores) =
              [stores |-> db.stores, created |-> {}, failed |-> FALSE]

\* The upgrade ran over a database that had some of the stores, one of them
\* with a record, and lacked others
C4_Witness ==
    /\ last.op = "openDB"
    /\ last.created # {}
    /\ \E n \in DOMAIN last.before : last.before[n].records # {}

-----------------------------------------------------------------------------
(* Claims about the form *)

\* The step just taken was handleFormValuesChange for a change of field f
Changed(f) ==
    /\ last'.op = "handleFormValuesChange"
    /\ Has(last'.changedValues, f)

\* The step just taken resumed the handler of a type change
ResumedTypeChange ==
    /\ last'.op = "resume"
    /\ Has(last'.changedValues, "type")

\* The brands with a colors field when the handler is called: values.colors
ColorsKeys == DOMAIN getFieldsValue(form, form).colors

\* The values the form's fields show once rendered from the store
FormValues(store) == getFieldsValue(store, store)

\* The type change up to the await: the form is reset and the read is placed
TypeChangeResets ==
    Changed("type") =>
        /\ form'.type = last'.changedValues.type
        /\ form'.brands = {}
        /\ form'.storeBoughtPaintSet = <<>>
        /\ \A b \in ColorsKeys : b \in DOMAIN form'.colors /\ form'.colors[b] = {}
        /\ Len(pending') = Len(pending) + 1
        /\ pending'[Len(pending')].valuesFromDb =
              {e.value : e \in {x \in RecordsOf("paint-sets") :
                                  x.value.type = last'.changedValues.type}}

\* The type change after the await: the stored definition, if any, is shown
TypeChangeLoads ==
    ResumedTypeChange =>
        IF last'.valuesFromDb = {} THEN form' = form
        ELSE \A v \in last'.valuesFromDb :
                FormValues(form') =
                    [type |-> v.type, brands |-> v.brands,
                     storeBoughtPaintSet |-> v.storeBoughtPaintSet,
                     colors |-> v.colors]

\* C5: a change of the paint type first resets brands to the empty list,
\* storeBoughtPaintSet to undefined and the colors of every brand of the form
\* to the empty list, and reads the definition stored for the new type; when
\* the read resolves with a definition the form shows its values, and when
\* it resolves with none the form is left as it is.
C5_TypeChange == [][TypeChangeResets /\ TypeChangeLoads]_vars

\* A type change has loaded a stored definition into the form
C5_Witness ==
    /\ last.op = "resume"
    /\ Has(last.changedValues, "type")
    /\ last.valuesFromDb # {}
    /\ form.type = last.changedValues.type
    /\ form.brands # {}
    /\ \E b \in form.brands \cap DOMAIN form.colors : form.colors[b] # {}

\* The handler's step for a paint set picked in the Cascader
StoreBoughtFills ==
    (Changed("storeBoughtPaintSet")
        /\ last'.changedValues.storeBoughtPaintSet # <<>>) =>
        LET v == last'.changedValues.storeBoughtPaintSet
            sets == storeBoughtPaintSets(form.type, RenderedBrands(form))
        IN  /\ form'.type = form.type
            /\ form'.brands = form.brands
            /\ form'.storeBoughtPaintSet = v
            /\ IF v = customPaintSet
               THEN \A b \in ColorsKeys :
                        b \in DOMAIN form'.colors /\ form'.colors[b] = {}
               ELSE /\ DOMAIN sets # {}
                    /\ v[1] \in DOMAIN form'.colors
                    /\ form'.colors[v[1]] = sets[v[1]][v[2]]
                    /\ \A b \in ColorsKeys \ {v[1]} :
                          b \in DOMAIN form'.colors /\ form'.colors[b] = {}

\* C6: a change of the paint set to a store-bought set (brand, name) sets
\* that brand's colors to the colors of the set and the colors of every other
\* brand of the form to the empty list; a change to the custom paint set sets
\* the colors of every brand to the empty list; type, brands and
\* storeBoughtPaintSet stay as they are.
C6_StoreBoughtPaintSet == [][StoreBoughtFills]_vars

\* A store-bought set was picked with two brands in the form: its brand has
\* the set's colors and the other brand has none
C6_Witness ==
    /\ last.op = "handleFormValuesChange"
    /\ Has(last.changedValues, "storeBoughtPaintSet")
    /\ Len(last.changedValues.storeBoughtPaintSet) = 2
    /\ form.brands = {1, 2}
    /\ DOMAIN form.colors = {1, 2}
    /\ form.colors[last.changedValues.storeBoughtPaintSet[1]] # {}
    /\ \E b \in DOMAIN form.colors : form.colors[b] = {}

\* The handler's step for an edit of a brand's colors
ColorsEditMarksCustom ==
    Changed("colors") =>
        /\ form'.storeBoughtPaintSet = customPaintSet
        /\ form'.type = form.type
        /\ form'.brands = form.brands
        /\ \A b \in DOMAIN form'.colors :
              form'.colors[b] =
                 IF b \in DOMAIN last'.changedValues.colors
                 THEN last'.changedValues.colors[b]
                 ELSE form.colors[b]

\* The handler's step for a change of the brands
BrandsChangeResets ==
    Changed("brands") =>
        /\ form'.storeBoughtPaintSet = <<>>
        /\ \A b \in ColorsKeys : b \in DOMAIN form'.colors /\ form'.colors[b] = {}
        /\ form'.type = form.type
        /\ form'.brands = last'.changedValues.brands

\* C7: an edit of a brand's colors sets storeBoughtPaintSet to the custom
\* paint set and leaves type, brands and the colors as edited; a change of
\* the brands sets storeBoughtPaintSet to undefined and the colors of every
\* brand of the form to the empty list and leaves type as it is.
C7_ColorsAndBrands == [][ColorsEditMarksCustom /\ BrandsChangeResets]_vars

\* The user has edited the colors of one of two brands
C7_Witness ==
    /\ last.op = "handleFormValuesChange"
    /\ Has(last.changedValues, "colors")
    /\ form.storeBoughtPaintSet = customPaintSet
    /\ form.brands = {1, 2}
    /\ \E b \in DOMAIN last.changedValues.colors \cap DOMAIN form.colors :
          form.colors[b] = last.changedValues.colors[b] /\ form.colors[b] # {}

\* The read of the last type change resolves right after the read of the
\* type change before it: the form shows the type chosen last
LastTypeWins ==
    (/\ ResumedTypeChange
     /\ pending' = <<>>
     /\ last.op = "resume"
     /\ Has(last.changedValues, "type")) =>
        form'.type = last'.changedValues.type

\* A read resolves while the read of a later type change is pending
StaleReadIgnored ==
    (ResumedTypeChange /\ pending' # <<>>) => form' = form

\* C8: when the user changes the type from A to B while the read for A is
\* pending, the read for A, resolving with B's read still pending, leaves the
\* form as it is, and once the read for B has resolved after it the form
\* shows type B.
C8_TypeChangesDoNotRace == [][LastTypeWins /\ StaleReadIgnored]_vars

=============================================================================
